---- MODULE Spec2Model ----
(***************************************************************************)
(* Model of tutorials/tf2/mnist_tutorial.py: the Net forward pass, the     *)
(* training loop of main with its optional adversarial augmentation, the   *)
(* evaluation loop over the attack functions, and the final report.        *)
(*                                                                         *)
(* Tensors are symbolic: a tensor records the batch it comes from, its     *)
(* shape, the chain of attack functions that produced it (by), the layers  *)
(* of Net applied to it (layers) and the versions of the model weights it  *)
(* was computed against (deps).  The attack functions, the optimizer and   *)
(* the metrics are external; a call to one of them is recorded with its    *)
(* arguments.  Floating-point literals are kept as their source text.      *)
(***************************************************************************)
EXTENDS Integers, Sequences, FiniteSets, TLC

VARIABLES
    nb_epochs,      \* FLAGS.nb_epochs
    adv_train,      \* FLAGS.adv_train
    eps,            \* FLAGS.eps
    numTrain,       \* number of batches of data.train
    numTest,        \* number of batches of data.test
    pc,             \* position of main
    epoch,          \* number of iterations of the epoch loop started
    ti,             \* index of the current batch of data.train
    tj,             \* index of the current batch of data.test
    site,           \* index of the next attack block of the evaluation body
    locals,         \* local variables of main holding tensors
    weights,        \* version of model.trainable_variables
    train_loss,     \* the tf.metrics.Mean named train_loss
    metrics,        \* the SparseCategoricalAccuracy metrics: their updates
    calls,          \* attack-function calls made so far, in order
    trainLog,       \* train_step invocations made so far, in order
    bar_train,      \* progress_bar_train
    bar_test,       \* progress_bar_test
    printed         \* lines printed so far, in order

vars == <<nb_epochs, adv_train, eps, numTrain, numTest, pc, epoch, ti, tj,
          site, locals, weights, train_loss, metrics, calls, trainLog,
          bar_train, bar_test, printed>>

(* ------------------------------ bounds --------------------------------- *)

MaxEpochs == 2
MaxTrainBatches == 2
MaxTestBatches == 2

EpsValues == {"0.3", "0.1"}
LossValues == {1, 2}

(* --------------------------- the network ------------------------------- *)

BatchSize == 128
InputShape == <<28, 28, 1>>

\* Spatial output size of a Conv2D over n positions.
ConvOut(n, kernel, stride, padding) ==
    IF padding = "same" THEN (n + stride - 1) \div stride
    ELSE (n - kernel) \div stride + 1

Conv2D(name, filters, kernel, stride, padding, t) ==
    [t EXCEPT !.shape = <<t.shape[1],
                          ConvOut(t.shape[2], kernel, stride, padding),
                          ConvOut(t.shape[3], kernel, stride, padding),
                          filters>>,
              !.layers = Append(@, name)]

DropoutLayer(name, t) == [t EXCEPT !.layers = Append(@, name)]

FlattenLayer(name, t) ==
    [t EXCEPT !.shape = <<t.shape[1], t.shape[2] * t.shape[3] * t.shape[4]>>,
              !.layers = Append(@, name)]

DenseLayer(name, units, t) ==
    [t EXCEPT !.shape = <<t.shape[1], units>>, !.layers = Append(@, name)]

conv1(t) == Conv2D("conv1", 64, 8, 2, "same", t)
conv2(t) == Conv2D("conv2", 128, 6, 2, "valid", t)
conv3(t) == Conv2D("conv3", 128, 5, 1, "valid", t)
dropout(t) == DropoutLayer("dropout", t)
flatten(t) == FlattenLayer("flatten", t)
dense1(t) == DenseLayer("dense1", 128, t)
dense2(t) == DenseLayer("dense2", 10, t)

\* Net.call with a layer left out (mutant of call).
call_skips_dropout(t) == dense2(dense1(flatten(conv3(conv2(conv1(t))))))

\* Net.call
call(t) ==
    LET x1 == conv1(t)
        x2 == conv2(x1)
        x3 == conv3(x2)
        x4 == dropout(x3)
        x5 == flatten(x4)
        x6 == dense1(x5)
    IN  dense2(x6)

\* model(x): the forward pass against the current weights w.
model(t, w) == [call(t) EXCEPT !.deps = @ \cup {w}]

(* ------------------------------ data ----------------------------------- *)

NoTensor == [set |-> "none", idx |-> 0, shape |-> <<>>, by |-> <<>>,
             layers |-> <<>>, deps |-> {}]

Image(set, i) == [set |-> set, idx |-> i, shape |-> <<BatchSize>> \o InputShape,
                  by |-> <<>>, layers |-> <<>>, deps |-> {}]

Label(set, i) == [set |-> set, idx |-> i, shape |-> <<BatchSize>>,
                  by |-> <<>>, layers |-> <<>>, deps |-> {}]

\* An attack function applied to x against the model with weights w.
Attack(fn, t, w) == [t EXCEPT !.by = Append(@, fn), !.deps = @ \cup {w}]

LocalNames == {"x", "y", "y_pred", "x_fgm", "y_pred_fgm", "x_pgd", "y_pred_pgd",
               "x_bim", "y_pred_bim", "x_mea", "y_pred_mea", "x_mim",
               "y_pred_mim", "x_cw", "y_pred_cw", "x_cw_quantum",
               "y_pred_cw_quantum"}

MetricNames == {"test_acc_clean", "test_acc_fgsm", "test_acc_pgd",
                "test_acc_bim", "test_acc_mea", "test_acc_mim", "test_acc_cw",
                "test_acc_cw_quantum"}

(* ------------------- the attack blocks of main ------------------------- *)

\* Line 92 with the result bound to another variable (mutant of TrainSite).
TrainSiteOtherVar(e) ==
    [out |-> "x_pgd", fn |-> "projected_gradient_descent", input |-> "x",
     args |-> [eps |-> e, eps_iter |-> "0.01", nb_iter |-> 40, norm |-> "np.inf"]]

\* Line 92: x = projected_gradient_descent(model, x, FLAGS.eps, 0.01, 40, np.inf)
TrainSite(e) ==
    [out |-> "x", fn |-> "projected_gradient_descent", input |-> "x",
     args |-> [eps |-> e, eps_iter |-> "0.01", nb_iter |-> 40, norm |-> "np.inf"]]

\* Lines 99-100: the clean prediction and its metric.
CleanSite ==
    [pred |-> "y_pred", fed |-> "x", metric |-> "test_acc_clean",
     labels |-> "y", scored |-> "y_pred"]

\* Each block is three statements: out = fn(model, input, args);
\* pred = model(fed); metric(labels, scored).
FgmSite(e) ==
    [out |-> "x_fgm", fn |-> "fast_gradient_method", input |-> "x",
     args |-> [eps |-> e, norm |-> "np.inf"],
     pred |-> "y_pred_fgm", fed |-> "x_fgm",
     metric |-> "test_acc_fgsm", labels |-> "y", scored |-> "y_pred_fgm"]

\* The PGD block scoring the FGM prediction (mutant of PgdSite).
PgdSiteScoresFgm(e) ==
    [out |-> "x_pgd", fn |-> "projected_gradient_descent", input |-> "x",
     args |-> [eps |-> e, eps_iter |-> "0.01", nb_iter |-> 40, norm |-> "np.inf"],
     pred |-> "y_pred_pgd", fed |-> "x_pgd",
     metric |-> "test_acc_pgd", labels |-> "y", scored |-> "y_pred_fgm"]

\* The PGD block attacking the FGM output (mutant of PgdSite).
PgdSiteChained(e) ==
    [out |-> "x_pgd", fn |-> "projected_gradient_descent", input |-> "x_fgm",
     args |-> [eps |-> e, eps_iter |-> "0.01", nb_iter |-> 40, norm |-> "np.inf"],
     pred |-> "y_pred_pgd", fed |-> "x_pgd",
     metric |-> "test_acc_pgd", labels |-> "y", scored |-> "y_pred_pgd"]

PgdSite(e) ==
    [out |-> "x_pgd", fn |-> "projected_gradient_descent", input |-> "x",
     args |-> [eps |-> e, eps_iter |-> "0.01", nb_iter |-> 40, norm |-> "np.inf"],
     pred |-> "y_pred_pgd", fed |-> "x_pgd",
     metric |-> "test_acc_pgd", labels |-> "y", scored |-> "y_pred_pgd"]

BimSite(e) ==
    [out |-> "x_bim", fn |-> "basic_iterative_method", input |-> "x",
     args |-> [eps |-> e, eps_iter |-> "0.01", nb_iter |-> 40, norm |-> "2"],
     pred |-> "y_pred_bim", fed |-> "x_bim",
     metric |-> "test_acc_bim", labels |-> "y", scored |-> "y_pred_bim"]

\* The MEA block passing FLAGS.eps (mutant of MeaSite).
MeaSiteUsesFlag(e) ==
    [out |-> "x_mea", fn |-> "madry_et_al", input |-> "x",
     args |-> [eps |-> e, eps_iter |-> "0.01", nb_iter |-> 40, norm |-> "np.inf"],
     pred |-> "y_pred_mea", fed |-> "x_mea",
     metric |-> "test_acc_mea", labels |-> "y", scored |-> "y_pred_mea"]

MeaSite(e) ==
    [out |-> "x_mea", fn |-> "madry_et_al", input |-> "x",
     args |-> [eps |-> "0.01", eps_iter |-> "0.01", nb_iter |-> 40, norm |-> "np.inf"],
     pred |-> "y_pred_mea", fed |-> "x_mea",
     metric |-> "test_acc_mea", labels |-> "y", scored |-> "y_pred_mea"]

MimSite(e) ==
    [out |-> "x_mim", fn |-> "momentum_iterative_method", input |-> "x",
     args |-> [eps |-> "0.01", eps_iter |-> "0.01", nb_iter |-> 40, norm |-> "np.inf"],
     pred |-> "y_pred_mim", fed |-> "x_mim",
     metric |-> "test_acc_mim", labels |-> "y", scored |-> "y_pred_mim"]

CwSite(e) ==
    [out |-> "x_cw", fn |-> "carlini_wagner_l2", input |-> "x",
     args |-> [targeted |-> FALSE, max_iterations |-> 50],
     pred |-> "y_pred_cw", fed |-> "x_cw",
     metric |-> "test_acc_cw", labels |-> "y", scored |-> "y_pred_cw"]

CwQuantumSite(e) ==
    [out |-> "x_cw_quantum", fn |-> "carlini_wagner_l2_quantum", input |-> "x",
     args |-> [targeted |-> FALSE, max_iterations |-> 10],
     pred |-> "y_pred_cw_quantum", fed |-> "x_cw_quantum",
     metric |-> "test_acc_cw_quantum", labels |-> "y",
     scored |-> "y_pred_cw_quantum"]

\* The evaluation body without its last block (mutant of EvalSites).
EvalSitesWithoutQuantum(e) ==
    <<FgmSite(e), PgdSite(e), BimSite(e), MeaSite(e), MimSite(e), CwSite(e)>>

\* Lines 102-128, in source order.
EvalSites(e) ==
    <<FgmSite(e), PgdSite(e), BimSite(e), MeaSite(e), MimSite(e), CwSite(e),
      CwQuantumSite(e)>>

\* The report with the metrics of two lines exchanged (mutant of PrintSites).
PrintSitesSwapped ==
    <<[label |-> "clean", metric |-> "test_acc_clean"],
      [label |-> "FGM", metric |-> "test_acc_fgsm"],
      [label |-> "PGD", metric |-> "test_acc_pgd"],
      [label |-> "BIM", metric |-> "test_acc_mea"],
      [label |-> "MEA", metric |-> "test_acc_bim"],
      [label |-> "MIM", metric |-> "test_acc_mim"],
      [label |-> "CW (original)", metric |-> "test_acc_cw"],
      [label |-> "CW (quantum)", metric |-> "test_acc_cw_quantum"]>>

\* Lines 132-174: the label of each printed line and the metric whose
\* result() it formats.
PrintSites ==
    <<[label |-> "clean", metric |-> "test_acc_clean"],
      [label |-> "FGM", metric |-> "test_acc_fgsm"],
      [label |-> "PGD", metric |-> "test_acc_pgd"],
      [label |-> "BIM", metric |-> "test_acc_bim"],
      [label |-> "MEA", metric |-> "test_acc_mea"],
      [label |-> "MIM", metric |-> "test_acc_mim"],
      [label |-> "CW (original)", metric |-> "test_acc_cw"],
      [label |-> "CW (quantum)", metric |-> "test_acc_cw_quantum"]>>

(* --------------------------- control flow ------------------------------ *)

\* An epoch loop that runs once more (mutant of MoreEpochs).
MoreEpochsInclusive(done, n) == done <= n

\* range(FLAGS.nb_epochs) has another element after `done` iterations.
MoreEpochs(done, n) == done < n

\* The evaluation body ending with a train step (mutant of AfterStmt).
AfterStmtTrainsInTest(p) ==
    CASE p = "adv" -> "step"
      [] p = "step" -> "bar"
      [] p = "bar" -> "train_iter"
      [] p = "clean" -> "attack"
      [] p = "test_add" -> "step"

\* The statement that follows a statement of a loop body.
AfterStmt(p) ==
    CASE p = "adv" -> "step"
      [] p = "step" -> "bar"
      [] p = "bar" -> "train_iter"
      [] p = "clean" -> "attack"
      [] p = "test_add" -> "test_iter"

TrainPcs == {"epoch", "train_iter", "adv", "step", "bar"}
EvalPcs == {"test_iter", "clean", "attack", "test_add"}

\* A metric that keeps only the last value (mutant of MeanUpdate).
MeanLast(m, v) == [total |-> v, count |-> 1]

\* tf.metrics.Mean called with a value.
MeanUpdate(m, v) == [total |-> m.total + v, count |-> m.count + 1]

\* optimizer.apply_gradients: the trainable variables take a new value.
apply_gradients(w) == w + 1

(* ------------------------------- Init ---------------------------------- *)

Init ==
    /\ nb_epochs \in -1..MaxEpochs
    /\ adv_train \in BOOLEAN
    /\ eps \in EpsValues
    /\ numTrain \in 0..MaxTrainBatches
    /\ numTest \in 0..MaxTestBatches
    /\ pc = "epoch"
    /\ epoch = 0
    /\ ti = 0
    /\ tj = 0
    /\ site = 1
    /\ locals = [n \in LocalNames |-> NoTensor]
    /\ weights = 0
    /\ train_loss = [total |-> 0, count |-> 0]
    /\ metrics = [m \in MetricNames |-> <<>>]
    /\ calls = <<>>
    /\ trainLog = <<>>
    /\ bar_train = [made |-> 0, target |-> 0, seen |-> 0, loss |-> <<0, 0>>]
    /\ bar_test = [made |-> 0, target |-> 0, seen |-> 0]
    /\ printed = <<>>

(* --------------------------- training loop ----------------------------- *)

\* Lines 86-88: the next epoch starts with a new progress bar.
EpochNext ==
    /\ pc = "epoch"
    /\ MoreEpochs(epoch, nb_epochs)
    /\ epoch' = epoch + 1
    /\ bar_train' = [made |-> bar_train.made + 1, target |-> 60000, seen |-> 0,
                     loss |-> <<0, 0>>]
    /\ ti' = 0
    /\ pc' = "train_iter"
    /\ UNCHANGED <<nb_epochs, adv_train, eps, numTrain, numTest, tj, site,
                   locals, weights, train_loss, metrics, calls, trainLog,
                   bar_test, printed>>

\* Lines 86, 97: the epoch loop is exhausted; the test progress bar is made.
EpochsDone ==
    /\ pc = "epoch"
    /\ ~MoreEpochs(epoch, nb_epochs)
    /\ bar_test' = [made |-> bar_test.made + 1, target |-> 10000, seen |-> 0]
    /\ tj' = 0
    /\ pc' = "test_iter"
    /\ UNCHANGED <<nb_epochs, adv_train, eps, numTrain, numTest, epoch, ti,
                   site, locals, weights, train_loss, metrics, calls, trainLog,
                   bar_train, printed>>

\* Line 89: the next (x, y) of data.train.
TrainNext ==
    /\ pc = "train_iter"
    /\ ti < numTrain
    /\ ti' = ti + 1
    /\ locals' = [locals EXCEPT !["x"] = Image("train", ti + 1),
                                !["y"] = Label("train", ti + 1)]
    /\ pc' = "adv"
    /\ UNCHANGED <<nb_epochs, adv_train, eps, numTrain, numTest, epoch, tj,
                   site, weights, train_loss, metrics, calls, trainLog,
                   bar_train, bar_test, printed>>

\* Line 89: data.train is exhausted.
TrainExhausted ==
    /\ pc = "train_iter"
    /\ ~(ti < numTrain)
    /\ pc' = "epoch"
    /\ UNCHANGED <<nb_epochs, adv_train, eps, numTrain, numTest, epoch, ti, tj,
                   site, locals, weights, train_loss, metrics, calls, trainLog,
                   bar_train, bar_test, printed>>

\* Lines 90-92: the optional adversarial augmentation.
Augment ==
    /\ pc = "adv"
    /\ LET s == TrainSite(eps) IN
       IF adv_train
       THEN /\ locals' = [locals EXCEPT ![s.out] =
                              Attack(s.fn, locals[s.input], weights)]
            /\ calls' = Append(calls, [phase |-> "train", epoch |-> epoch,
                                       idx |-> ti, fn |-> s.fn,
                                       input |-> locals[s.input],
                                       args |-> s.args, w |-> weights])
       ELSE UNCHANGED <<locals, calls>>
    /\ pc' = AfterStmt(pc)
    /\ UNCHANGED <<nb_epochs, adv_train, eps, numTrain, numTest, epoch, ti, tj,
                   site, weights, train_loss, metrics, trainLog, bar_train,
                   bar_test, printed>>

\* Lines 76-83, 93: train_step(x, y).
TrainStep ==
    /\ pc = "step"
    /\ \E loss \in LossValues :
         /\ trainLog' = Append(trainLog,
                [epoch |-> epoch, idx |-> ti, x |-> locals["x"],
                 y |-> locals["y"],
                 predictions |-> model(locals["x"], weights), w |-> weights])
         /\ weights' = apply_gradients(weights)
         /\ train_loss' = MeanUpdate(train_loss, loss)
    /\ pc' = AfterStmt(pc)
    /\ UNCHANGED <<nb_epochs, adv_train, eps, numTrain, numTest, epoch, ti, tj,
                   site, locals, metrics, calls, bar_train, bar_test, printed>>

\* Line 94: progress_bar_train.add(x.shape[0], values=[("loss", ...)]).
TrainProgress ==
    /\ pc = "bar"
    /\ bar_train' = [bar_train EXCEPT
                        !.seen = @ + locals["x"].shape[1],
                        !.loss = <<train_loss.total, train_loss.count>>]
    /\ pc' = AfterStmt(pc)
    /\ UNCHANGED <<nb_epochs, adv_train, eps, numTrain, numTest, epoch, ti, tj,
                   site, locals, weights, train_loss, metrics, calls, trainLog,
                   bar_test, printed>>

(* -------------------------- evaluation loop ---------------------------- *)

\* Line 98: the next (x, y) of data.test.
TestNext ==
    /\ pc = "test_iter"
    /\ tj < numTest
    /\ tj' = tj + 1
    /\ locals' = [locals EXCEPT !["x"] = Image("test", tj + 1),
                                !["y"] = Label("test", tj + 1)]
    /\ pc' = "clean"
    /\ UNCHANGED <<nb_epochs, adv_train, eps, numTrain, numTest, epoch, ti,
                   site, weights, train_loss, metrics, calls, trainLog,
                   bar_train, bar_test, printed>>

\* Line 98: data.test is exhausted; the report follows.
TestExhausted ==
    /\ pc = "test_iter"
    /\ ~(tj < numTest)
    /\ pc' = "print"
    /\ UNCHANGED <<nb_epochs, adv_train, eps, numTrain, numTest, epoch, ti, tj,
                   site, locals, weights, train_loss, metrics, calls, trainLog,
                   bar_train, bar_test, printed>>

\* Lines 99-100: y_pred = model(x); test_acc_clean(y, y_pred).
EvalClean ==
    /\ pc = "clean"
    /\ LET s == CleanSite
           l == [locals EXCEPT ![s.pred] = model(locals[s.fed], weights)]
       IN  /\ locals' = l
           /\ metrics' = [metrics EXCEPT ![s.metric] =
                             Append(@, [y |-> l[s.labels], pred |-> l[s.scored]])]
    /\ site' = 1
    /\ pc' = AfterStmt(pc)
    /\ UNCHANGED <<nb_epochs, adv_train, eps, numTrain, numTest, epoch, ti, tj,
                   weights, train_loss, calls, trainLog, bar_train, bar_test,
                   printed>>

\* Lines 102-128: one attack block: the attack, the prediction on its
\* output, the metric update.
EvalAttack ==
    /\ pc = "attack"
    /\ site <= Len(EvalSites(eps))
    /\ LET s == EvalSites(eps)[site]
           l1 == [locals EXCEPT ![s.out] =
                      Attack(s.fn, locals[s.input], weights)]
           l2 == [l1 EXCEPT ![s.pred] = model(l1[s.fed], weights)]
       IN  /\ calls' = Append(calls, [phase |-> "test", epoch |-> epoch,
                                      idx |-> tj, fn |-> s.fn,
                                      input |-> locals[s.input],
                                      args |-> s.args, w |-> weights])
           /\ locals' = l2
           /\ metrics' = [metrics EXCEPT ![s.metric] =
                             Append(@, [y |-> l2[s.labels], pred |-> l2[s.scored]])]
    /\ site' = site + 1
    /\ pc' = IF site < Len(EvalSites(eps)) THEN "attack" ELSE "test_add"
    /\ UNCHANGED <<nb_epochs, adv_train, eps, numTrain, numTest, epoch, ti, tj,
                   weights, train_loss, trainLog, bar_train, bar_test, printed>>

\* Line 130: progress_bar_test.add(x.shape[0]).
TestProgress ==
    /\ pc = "test_add"
    /\ bar_test' = [bar_test EXCEPT !.seen = @ + locals["x"].shape[1]]
    /\ pc' = AfterStmt(pc)
    /\ UNCHANGED <<nb_epochs, adv_train, eps, numTrain, numTest, epoch, ti, tj,
                   site, locals, weights, train_loss, metrics, calls, trainLog,
                   bar_train, printed>>

(* ------------------------------ report --------------------------------- *)

\* Lines 132-174: the next print: a label and the result() of a metric.
PrintLine ==
    /\ pc = "print"
    /\ LET k == Len(printed) + 1
           s == PrintSites[k]
       IN  /\ printed' = Append(printed, [label |-> s.label, metric |-> s.metric,
                                          updates |-> metrics[s.metric],
                                          batches |-> tj])
           /\ pc' = IF k < Len(PrintSites) THEN "print" ELSE "done"
    /\ UNCHANGED <<nb_epochs, adv_train, eps, numTrain, numTest, epoch, ti, tj,
                   site, locals, weights, train_loss, metrics, calls, trainLog,
                   bar_train, bar_test>>

(* --------------------------- specification ----------------------------- *)

Next ==
    \/ EpochNext
    \/ EpochsDone
    \/ TrainNext
    \/ TrainExhausted
    \/ Augment
    \/ TrainStep
    \/ TrainProgress
    \/ TestNext
    \/ TestExhausted
    \/ EvalClean
    \/ EvalAttack
    \/ TestProgress
    \/ PrintLine

Spec == Init /\ [][Next]_vars

(* ------------------------------ claims --------------------------------- *)

Max(a, b) == IF a > b THEN a ELSE b

IsPrefix(u, v) == Len(u) <= Len(v) /\ \A i \in 1..Len(u) : u[i] = v[i]

\* The indices of the calls made in `phase`.
CallsOf(phase) == {i \in 1..Len(calls) : calls[i].phase = phase}

\* The functions called while test batch j was evaluated, in order.
TestCallFns(j) ==
    LET sel == SelectSeq(calls, LAMBDA c : c.phase = "test" /\ c.idx = j)
    IN  [i \in 1..Len(sel) |-> sel[i].fn]

AttackOrder ==
    <<"fast_gradient_method", "projected_gradient_descent",
      "basic_iterative_method", "madry_et_al", "momentum_iterative_method",
      "carlini_wagner_l2", "carlini_wagner_l2_quantum">>

MetricOrder ==
    <<"test_acc_clean", "test_acc_fgsm", "test_acc_pgd", "test_acc_bim",
      "test_acc_mea", "test_acc_mim", "test_acc_cw", "test_acc_cw_quantum">>

LabelOrder ==
    <<"clean", "FGM", "PGD", "BIM", "MEA", "MIM", "CW (original)",
      "CW (quantum)">>

\* The attacks a tensor scored by the k-th metric has gone through.
ChainOf(k) == IF k = 1 THEN <<>> ELSE <<AttackOrder[k - 1]>>

FullLayers ==
    <<"conv1", "conv2", "conv3", "dropout", "flatten", "dense1", "dense2">>

\* C1: the adversarial augmentation of training is optional and single.
\* Without adv_train no attack is called during training and train_step
\* receives the clean batch; with adv_train projected_gradient_descent is
\* called exactly once on each clean batch before its train_step, which
\* receives the adversarial x and the unchanged labels y.
C1_Augmentation ==
    /\ \A i \in CallsOf("train") :
          /\ adv_train
          /\ calls[i].fn = "projected_gradient_descent"
          /\ calls[i].input = Image("train", calls[i].idx)
    /\ Cardinality(CallsOf("train")) =
          IF adv_train THEN Len(trainLog) + (IF pc = "step" THEN 1 ELSE 0)
          ELSE 0
    /\ \A i \in 1..Len(trainLog) :
          LET t == trainLog[i] IN
          /\ t.y = Label("train", t.idx)
          /\ t.x = IF adv_train
                   THEN Attack("projected_gradient_descent",
                               Image("train", t.idx), t.w)
                   ELSE Image("train", t.idx)
          /\ adv_train =>
                Cardinality({c \in CallsOf("train") :
                               /\ calls[c].epoch = t.epoch
                               /\ calls[c].idx = t.idx
                               /\ calls[c].w = t.w}) = 1

C1_Witness ==
    /\ adv_train
    /\ Len(trainLog) >= 2
    /\ trainLog[2].x.by = <<"projected_gradient_descent">>

\* C2: accuracy is tallied per attack.  Each metric is updated once per test
\* batch, with that batch's labels and the prediction on the output of its
\* own attack (the clean metric on x itself); after the loop every metric
\* has as many updates as there are test batches.
C2_Tally ==
    /\ \A k \in 1..Len(MetricOrder) :
          LET u == metrics[MetricOrder[k]] IN
          /\ Len(u) \in {tj - 1, tj} \cap Nat
          /\ pc \in {"test_iter", "print", "done"} => Len(u) = tj
          /\ pc \in {"print", "done"} => Len(u) = numTest
          /\ \A j \in 1..Len(u) :
                /\ u[j].y = Label("test", j)
                /\ u[j].pred.set = "test"
                /\ u[j].pred.idx = j
                /\ u[j].pred.by = ChainOf(k)
                /\ u[j].pred.layers # <<>>

C2_Witness ==
    /\ pc = "done"
    /\ numTest >= 2
    /\ Len(metrics["test_acc_cw_quantum"]) = 2

\* C3 as stated: every iteration over data.test makes exactly six
\* attack-function calls.
C3_SixCalls == pc = "test_add" => Len(TestCallFns(tj)) = 6

\* C3 (amended): every iteration over data.test makes exactly seven
\* attack-function calls, one to each of the seven imported attack functions.
C3_SevenCalls ==
    /\ pc = "test_add" => Len(TestCallFns(tj)) = 7
    /\ \A j \in 1..numTest :
          (j < tj \/ (j = tj /\ pc \in {"test_add", "test_iter", "print", "done"}))
              => /\ Len(TestCallFns(j)) = 7
                 /\ Cardinality({TestCallFns(j)[i] : i \in 1..7}) = 7

C3_Witness == pc = "test_add" /\ tj = 2 /\ Len(TestCallFns(2)) = 7

\* The hyperparameters the call c would have been made with had the eps
\* flag been e.
ArgsUnder(c, e) ==
    IF c.phase = "train" THEN TrainSite(e).args
    ELSE LET k == CHOOSE k \in 1..Len(EvalSites(e)) : EvalSites(e)[k].fn = c.fn
         IN  EvalSites(e)[k].args

FlagFreeFns ==
    {"madry_et_al", "momentum_iterative_method", "carlini_wagner_l2",
     "carlini_wagner_l2_quantum"}

\* C4 as stated: every hyperparameter of every attack call is a constant of
\* the source, so a run with another value of the eps flag makes every call
\* with the same hyperparameters.
C4_AllLiteral ==
    \A i \in 1..Len(calls) : \A e \in EpsValues :
        calls[i].args = ArgsUnder(calls[i], e)

\* C4 (amended): the calls to madry_et_al, momentum_iterative_method,
\* carlini_wagner_l2 and carlini_wagner_l2_quantum take only constants of the
\* source; the training-time PGD call and the evaluation-time FGM, PGD and
\* BIM calls pass the eps flag as eps and constants for everything else.  A
\* run with another eps makes the former calls with identical
\* hyperparameters and the latter with hyperparameters differing in eps only.
C4_LiteralExceptEps ==
    \A i \in 1..Len(calls) : \A e \in EpsValues :
        LET c == calls[i] IN
        IF c.phase = "test" /\ c.fn \in FlagFreeFns
        THEN c.args = ArgsUnder(c, e)
        ELSE /\ c.args.eps = eps
             /\ ArgsUnder(c, e) = [c.args EXCEPT !.eps = e]

C4_Witness ==
    /\ eps = "0.1"
    /\ pc = "done"
    /\ numTest >= 1
    /\ adv_train
    /\ CallsOf("train") # {}

\* C5: the evaluators run in a fixed order and the results are printed
\* afterwards.  In every iteration the clean prediction comes first and the
\* attacks follow in the order FGM, PGD, BIM, MEA, MIM, CW, CW-quantum;
\* nothing is printed before every test batch is processed; the lines are
\* printed once each in the same order, each label with the result of the
\* metric of the same attack.
C5_FixedOrder ==
    /\ \A j \in 1..tj :
          /\ IsPrefix(TestCallFns(j), AttackOrder)
          /\ j < tj => TestCallFns(j) = AttackOrder
          /\ TestCallFns(j) # <<>> => Len(metrics["test_acc_clean"]) >= j
          /\ \A k \in 2..Len(MetricOrder) :
                Len(metrics[MetricOrder[k]]) >= j <=> Len(TestCallFns(j)) >= k - 1
    /\ printed # <<>> =>
          /\ pc \in {"print", "done"}
          /\ tj = numTest
          /\ \A j \in 1..numTest : TestCallFns(j) = AttackOrder
    /\ Len(printed) <= Len(LabelOrder)
    /\ pc = "done" => Len(printed) = Len(LabelOrder)
    /\ \A k \in 1..Len(printed) :
          /\ printed[k].label = LabelOrder[k]
          /\ printed[k].metric = MetricOrder[k]
          /\ printed[k].updates = metrics[MetricOrder[k]]
          /\ Len(printed[k].updates) = numTest
          /\ \A j \in 1..numTest : printed[k].updates[j].pred.by = ChainOf(k)

C5_Witness ==
    /\ pc = "done"
    /\ numTest = 2
    /\ Len(printed) = 8
    /\ printed[5].updates[2].pred.by = <<"madry_et_al">>

\* The train steps a whole training phase makes.
TotalSteps == Max(nb_epochs, 0) * numTrain

\* What C6 says of every state.
C6_Counts ==
    /\ Len(trainLog) <= TotalSteps
    /\ weights = Len(trainLog)
    /\ train_loss.count = Len(trainLog)
    /\ \A i \in 1..Len(trainLog) :
          /\ trainLog[i].epoch = ((i - 1) \div numTrain) + 1
          /\ trainLog[i].idx = ((i - 1) % numTrain) + 1
          /\ trainLog[i].w = i - 1
    /\ pc \notin TrainPcs =>
          /\ Len(trainLog) = TotalSteps
          /\ bar_test.made = 1
    /\ nb_epochs <= 0 => trainLog = <<>> /\ weights = 0

\* The statements the training phase has still to execute: each epoch is
\* its loop header, four statements per batch and the exhausted inner loop.
TrainRemaining ==
    LET perEpoch == 4 * numTrain + 2
        later == Max(nb_epochs - epoch, 0) * perEpoch + 1
        inner == 4 * (numTrain - ti) + 1 + later
    IN  CASE pc = "epoch" -> later
          [] pc = "train_iter" -> inner
          [] pc = "adv" -> 3 + inner
          [] pc = "step" -> 2 + inner
          [] pc = "bar" -> 1 + inner
          [] OTHER -> 0

\* C6: training is a loop that terminates.  train_step, one gradient
\* computation with one apply_gradients and one train_loss update, runs once
\* per batch per epoch, max(nb_epochs, 0) * B times in all; then training
\* ends and evaluation starts, also when nb_epochs <= 0 and no step ran.
\* Termination: while training, a next statement exists and each statement
\* executed lowers the natural number TrainRemaining.
C6_TrainingTerminates ==
    /\ []C6_Counts
    /\ [](pc \in TrainPcs => TrainRemaining > 0 /\ ENABLED Next)
    /\ [][(pc \in TrainPcs) => (TrainRemaining' = TrainRemaining - 1)]_vars

C6_Witness ==
    /\ pc = "test_iter"
    /\ nb_epochs = 2
    /\ numTrain = 2
    /\ Len(trainLog) = 4

\* The locals of main that hold predictions.
PredNames ==
    {"y_pred", "y_pred_fgm", "y_pred_pgd", "y_pred_bim", "y_pred_mea",
     "y_pred_mim", "y_pred_cw", "y_pred_cw_quantum"}

IsLogits(t) == t.layers = FullLayers /\ t.shape = <<BatchSize, 10>>

\* C7: the network is a seven-layer feed-forward CNN.  Every output of the
\* model went through conv1, conv2, conv3, dropout, flatten, dense1, dense2,
\* each once and in this order, each on the previous layer's output, and is
\* the output of dense2: 10 logits per example.
C7_SevenLayers ==
    /\ \A n \in PredNames : locals[n] # NoTensor => IsLogits(locals[n])
    /\ \A i \in 1..Len(trainLog) : IsLogits(trainLog[i].predictions)
    /\ \A m \in MetricNames : \A j \in 1..Len(metrics[m]) :
          IsLogits(metrics[m][j].pred)

C7_Witness ==
    /\ locals["y_pred_cw_quantum"] # NoTensor
    /\ locals["y_pred_cw_quantum"].shape = <<128, 10>>
    /\ Len(trainLog) >= 1

\* C8: within one evaluation iteration every attack function receives the
\* clean test batch x: x is not reassigned and no attack takes the output of
\* an earlier attack.
C8_CleanInput ==
    /\ \A i \in CallsOf("test") : calls[i].input = Image("test", calls[i].idx)
    /\ pc \in {"clean", "attack", "test_add"} => locals["x"] = Image("test", tj)

C8_Witness ==
    /\ pc = "test_add"
    /\ tj = 2
    /\ locals["x_cw"].by = <<"carlini_wagner_l2">>

\* What C9 says of every state: the evaluation has computed everything
\* against the current weights, and no train step ran on test data.
C9_SameWeights ==
    /\ \A i \in CallsOf("test") : calls[i].w = weights
    /\ \A m \in MetricNames : \A j \in 1..Len(metrics[m]) :
          metrics[m][j].pred.deps = {weights}
    /\ \A i \in 1..Len(trainLog) : trainLog[i].x.set = "train"

\* C9: the evaluation phase leaves the weights unchanged.  Once the training
\* loop has ended train_step is not invoked and the weights keep their
\* value, so every prediction and attack of every test batch is computed
\* against the same final weights.
C9_EvalKeepsWeights ==
    /\ []C9_SameWeights
    /\ [][bar_test.made > 0 => weights' = weights /\ trainLog' = trainLog]_vars

C9_Witness ==
    /\ pc = "done"
    /\ numTest = 2
    /\ weights >= 2
    /\ metrics["test_acc_clean"][1].pred.deps = {weights}

\* C10: train_loss is never reset.  It only accumulates, one value per train
\* step, so the value reported to the progress bar is the mean over all
\* train steps since the start of training, across epochs, while every
\* epoch makes a new progress bar.
C10_LossNeverReset ==
    /\ train_loss.count = Len(trainLog)
    /\ \A v \in LossValues :
          ((\A u \in LossValues : v <= u) => train_loss.total >= v * Len(trainLog))
          /\ ((\A u \in LossValues : v >= u) => train_loss.total <= v * Len(trainLog))
    /\ bar_train.made = epoch
    /\ (pc = "train_iter" /\ ti > 0) =>
          /\ bar_train.loss = <<train_loss.total, train_loss.count>>
          /\ bar_train.loss[2] = (epoch - 1) * numTrain + ti
          /\ bar_train.seen = ti * BatchSize

C10_Witness ==
    /\ epoch = 2
    /\ pc = "train_iter"
    /\ ti = 1
    /\ numTrain = 2
    /\ bar_train.made = 2
    /\ bar_train.loss[2] = 3

====
